---- MODULE Spec2Model ----
(***************************************************************************)
(* Model of setup.py, the cx_Freeze build descriptor of the Zubax serial   *)
(* firmware updater.  One run of the descriptor is a straight-line         *)
(* sequence of module-level statements; every statement is one action.     *)
(* File names are sequences of one-character strings so that glob's        *)
(* pattern matching is computed, not assumed.                              *)
(***************************************************************************)
EXTENDS Integers, Sequences, FiniteSets, TLC

VARIABLES platform,   \* sys.platform of the interpreter running the descriptor
          dir,        \* names of the entries of the current working directory
          startDir,   \* the working directory as it was when the run started
          pc,         \* the statement the interpreter is about to execute
          ns,         \* the module namespace: the names bound so far
          raised,     \* message of the uncaught exception, "" if none
          calls,      \* keyword arguments of every call of setup(), in order
          prev        \* completed earlier runs over the same working directory

vars == <<platform, dir, startDir, pc, ns, raised, calls, prev>>

(***************************************************************************)
(* Bounds                                                                  *)
(***************************************************************************)
\* largest number of entries in the working directory
MaxFiles == 3

(***************************************************************************)
(* File names                                                              *)
(***************************************************************************)
fw_bin     == <<"f", "w", ".", "b", "i", "n">>
b_bin      == <<"b", ".", "b", "i", "n">>
FW_BIN     == <<"F", "W", ".", "B", "I", "N">>
hidden_bin == <<".", "x", ".", "b", "i", "n">>
bin_txt    == <<"a", ".", "b", "i", "n", ".", "t", "x", "t">>
bin_nodot  == <<"b", "i", "n">>
icon_ico   == <<"i", "c", "o", "n", ".", "i", "c", "o">>
script     == <<"z", "u", "b", "a", "x", "_", "s", "e", "r", "i", "a", "l",
                "_", "u", "p", "d", "a", "t", "e", "r">>
build_dir  == <<"b", "u", "i", "l", "d">>

\* the names a working directory is drawn from
Names == {fw_bin, b_bin, FW_BIN, hidden_bin, bin_txt, bin_nodot, icon_ico, script}

\* values of sys.platform: Windows, Linux, macOS, Cygwin
Platforms == {"win32", "linux", "darwin", "cygwin"}

\* the glob pattern of line 13
Pattern == <<"*", ".", "b", "i", "n">>

(***************************************************************************)
(* glob.glob as the standard library computes it                           *)
(***************************************************************************)
\* str.lower on the characters that occur in Names, '/' to '\' as ntpath does
NtChar(c) ==
    CASE c = "F" -> "f"
      [] c = "W" -> "w"
      [] c = "B" -> "b"
      [] c = "I" -> "i"
      [] c = "N" -> "n"
      [] c = "/" -> "\\"
      [] OTHER   -> c

\* os.path.normcase: ntpath lower-cases, posixpath returns its argument
Normcase(s, p) ==
    IF p = "win32" THEN [i \in 1..Len(s) |-> NtChar(s[i])] ELSE s

\* the regular expression fnmatch.translate builds: '*' is '.*', '?' is '.'
RECURSIVE Fnmatch(_, _)
Fnmatch(name, pat) ==
    IF pat = <<>> THEN name = <<>>
    ELSE IF Head(pat) = "*"
         THEN Fnmatch(name, Tail(pat))
              \/ (name # <<>> /\ Fnmatch(Tail(name), pat))
         ELSE /\ name # <<>>
              /\ (Head(pat) = "?" \/ Head(pat) = Head(name))
              /\ Fnmatch(Tail(name), Tail(pat))

\* glob._ishidden
IsHidden(name) == name # <<>> /\ name[1] = "."

\* fnmatch.filter: the names whose normcase matches the normcased pattern,
\* in the order given, each appended as it was listed
RECURSIVE FnmatchFilter(_, _, _)
FnmatchFilter(names, pat, p) ==
    IF names = <<>> THEN <<>>
    ELSE (IF Fnmatch(Normcase(Head(names), p), Normcase(pat, p))
          THEN <<Head(names)>> ELSE <<>>)
         \o FnmatchFilter(Tail(names), pat, p)

\* glob._glob1 without the hidden-name rule
GlobIncludeHidden(listing, pat, p) == FnmatchFilter(listing, pat, p)

\* glob._glob1: hidden names are dropped unless the pattern itself is hidden
Glob(listing, pat, p) ==
    FnmatchFilter(IF IsHidden(pat) THEN listing
                  ELSE SelectSeq(listing, LAMBDA n : ~IsHidden(n)),
                  pat, p)

\* os.scandir: the entries of a directory, each once, in arbitrary order
Listings(S) ==
    {l \in [1..Cardinality(S) -> S] : \A i, j \in DOMAIN l : l[i] = l[j] => i = j}

(***************************************************************************)
(* The values the descriptor builds                                        *)
(***************************************************************************)
\* the comparison of line 11 inverted
BaseInverted(p) == IF p # "win32" THEN "Win32GUI" ELSE "None"

\* line 11
Base(p) == IF p = "win32" THEN "Win32GUI" ELSE "None"

\* 'tkinter' left out of the bundled packages
BuildExeOptionsNoTkinter(binaries) ==
    [packages      |-> <<"serial">>,
     include_msvcr |-> TRUE,
     include_files |-> binaries]

\* the C runtime bundled on Windows only
BuildExeOptionsMsvcrOnWindows(binaries) ==
    [packages      |-> <<"serial", "tkinter">>,
     include_msvcr |-> (platform = "win32"),
     include_files |-> binaries]

\* lines 17-21
BuildExeOptions(binaries) ==
    [packages      |-> <<"serial", "tkinter">>,
     include_msvcr |-> TRUE,
     include_files |-> binaries]

\* lines 23-25
BdistMsiOptions ==
    [initial_target_dir |-> "[ProgramFilesFolder]\\Zubax\\serial_updater"]

\* the base keyword left out of the Executable
ExecutableNoBase(b) ==
    [script       |-> script,
     base         |-> "None",
     icon         |-> icon_ico,
     shortcutName |-> "Zubax Serial Updater",
     shortcutDir  |-> "ProgramMenuFolder"]

\* lines 40-44
Executable(b) ==
    [script       |-> script,
     base         |-> b,
     icon         |-> icon_ico,
     shortcutName |-> "Zubax Serial Updater",
     shortcutDir  |-> "ProgramMenuFolder"]

\* lines 27-45: the keyword arguments of the call
SetupArgs(n) ==
    [name         |-> "zubax_serial_updater",
     version      |-> "1.0",
     description  |-> "Zubax serial firmware updater",
     requires     |-> <<"serial">>,
     author       |-> "Pavel Kirienko",
     author_email |-> "pavel.kirienko@zubax.com",
     url          |-> "http://zubax.com",
     license      |-> "MIT",
     options      |-> [build_exe |-> n.build_exe_options,
                       bdist_msi |-> n.bdist_msi_options],
     executables  |-> <<Executable(n.base)>>]

\* binding a module-level name
Bind(n, name, value) == (name :> value) @@ n

Bound(name) == name \in DOMAIN ns

(***************************************************************************)
(* The run                                                                 *)
(***************************************************************************)
Init ==
    /\ platform \in Platforms
    /\ dir \in {S \in SUBSET Names : Cardinality(S) <= MaxFiles}
    /\ startDir = dir
    /\ pc = "base"
    /\ ns = <<>>
    /\ raised = ""
    /\ calls = <<>>
    /\ prev = <<>>

\* line 11
SelectBase ==
    /\ pc = "base"
    /\ ns' = Bind(ns, "base", Base(platform))
    /\ pc' = "glob"
    /\ UNCHANGED <<platform, dir, startDir, raised, calls, prev>>

\* the discovery step clearing the directory of what it did not match
DiscoverAndClean ==
    /\ pc = "glob"
    /\ \E listing \in Listings(dir) :
           /\ ns' = Bind(ns, "binaries", Glob(listing, Pattern, platform))
           /\ dir' = {n \in dir : \E i \in DOMAIN ns'.binaries : ns'.binaries[i] = n}
    /\ pc' = "guard"
    /\ UNCHANGED <<platform, startDir, raised, calls, prev>>

\* line 13
Discover ==
    /\ pc = "glob"
    /\ \E listing \in Listings(dir) :
           ns' = Bind(ns, "binaries", Glob(listing, Pattern, platform))
    /\ pc' = "guard"
    /\ UNCHANGED <<platform, dir, startDir, raised, calls, prev>>

\* the guard without its raise
GuardNeverRaises ==
    /\ pc = "guard"
    /\ pc' = "build_exe_options"
    /\ UNCHANGED <<platform, dir, startDir, ns, raised, calls, prev>>

\* the guard reporting the error and carrying on
GuardLogAndContinue ==
    /\ pc = "guard"
    /\ raised' = IF Len(ns.binaries) = 0 THEN "Could not find binaries" ELSE raised
    /\ pc' = "build_exe_options"
    /\ UNCHANGED <<platform, dir, startDir, ns, calls, prev>>

\* the guard going back to the discovery instead of raising
GuardRetry ==
    /\ pc = "guard"
    /\ pc' = IF Len(ns.binaries) = 0 THEN "glob" ELSE "build_exe_options"
    /\ UNCHANGED <<platform, dir, startDir, ns, raised, calls, prev>>

\* lines 14-15
Guard ==
    /\ pc = "guard"
    /\ IF Len(ns.binaries) = 0
       THEN /\ raised' = "Could not find binaries"
            /\ pc' = "aborted"
       ELSE /\ raised' = raised
            /\ pc' = "build_exe_options"
    /\ UNCHANGED <<platform, dir, startDir, ns, calls, prev>>

\* lines 17-21
AssembleBuildOptions ==
    /\ pc = "build_exe_options"
    /\ ns' = Bind(ns, "build_exe_options", BuildExeOptions(ns.binaries))
    /\ pc' = "bdist_msi_options"
    /\ UNCHANGED <<platform, dir, startDir, raised, calls, prev>>

\* the installer options statement also touching the build options
AssembleInstallerOptionsTouchingBuild ==
    /\ pc = "bdist_msi_options"
    /\ ns' = Bind(Bind(ns, "bdist_msi_options", BdistMsiOptions),
                  "build_exe_options",
                  [ns.build_exe_options EXCEPT !.include_msvcr = FALSE])
    /\ pc' = "setup"
    /\ UNCHANGED <<platform, dir, startDir, raised, calls, prev>>

\* lines 23-25
AssembleInstallerOptions ==
    /\ pc = "bdist_msi_options"
    /\ ns' = Bind(ns, "bdist_msi_options", BdistMsiOptions)
    /\ pc' = "setup"
    /\ UNCHANGED <<platform, dir, startDir, raised, calls, prev>>

\* lines 27-45: the packaging tool runs and leaves its build tree behind
Setup ==
    /\ pc = "setup"
    /\ calls' = Append(calls, SetupArgs(ns))
    /\ dir' = dir \cup {build_dir}
    /\ pc' = "done"
    /\ UNCHANGED <<platform, startDir, ns, raised, prev>>

Next ==
    \/ SelectBase
    \/ Discover
    \/ Guard
    \/ AssembleBuildOptions
    \/ AssembleInstallerOptions
    \/ Setup

Spec == Init /\ [][Next]_vars

\* the interpreter keeps executing statements until the module ends or raises
LiveSpec == Spec /\ WF_vars(Next)

\* the descriptor is invoked again, by an interpreter of another platform,
\* over the working directory the first run started from
NextRun ==
    /\ pc \in {"done", "aborted"}
    /\ prev = <<>>
    /\ prev' = <<[platform |-> platform, pc |-> pc, calls |-> calls]>>
    /\ \E p \in Platforms \ {platform} : platform' = p
    /\ dir' = startDir
    /\ pc' = "base"
    /\ ns' = <<>>
    /\ raised' = ""
    /\ calls' = <<>>
    /\ UNCHANGED startDir

PairNext == Next \/ NextRun

PairSpec == Init /\ [][PairNext]_vars

(***************************************************************************)
(* Vocabulary of the properties                                            *)
(***************************************************************************)
Range(f) == {f[i] : i \in DOMAIN f}

NoDuplicates(f) == \A i, j \in DOMAIN f : f[i] = f[j] => i = j

DotBin == <<".", "b", "i", "n">>

HasSuffix(s, suf) ==
    /\ Len(s) >= Len(suf)
    /\ \A i \in 1..Len(suf) : s[Len(s) - Len(suf) + i] = suf[i]

Lower(s) == [i \in 1..Len(s) |-> NtChar(s[i])]

\* a name that the pattern '*.bin' selects for an interpreter of platform p:
\* not hidden, ending in ".bin", compared without regard to case on Windows
MatchesBin(n, p) ==
    /\ n[1] # "."
    /\ HasSuffix(IF p = "win32" THEN Lower(n) ELSE n, DotBin)

\* the payload of a run: the matching entries of its working directory
Payload == {n \in startDir : MatchesBin(n, platform)}

\* no entry is selected on Windows only because case is ignored there
CaseStable == \A n \in startDir : MatchesBin(n, "win32") => MatchesBin(n, "linux")

Finished == pc \in {"done", "aborted"}

(***************************************************************************)
(* C1: with no entry matching '*.bin' the run aborts with 'Could not find  *)
(* binaries' and never calls setup(); whenever setup() has been called the *)
(* discovered payload is non-empty.                                        *)
(***************************************************************************)
C1_NoPayloadAborts ==
    /\ (Payload = {} /\ pc \notin {"base", "glob", "guard"}) =>
           (pc = "aborted" /\ raised = "Could not find binaries")
    /\ Payload = {} => calls = <<>>
    /\ calls # <<>> => (Len(ns.binaries) > 0 /\ Payload # {})

C1_Witness ==
    /\ pc = "aborted"
    /\ raised = "Could not find binaries"
    /\ hidden_bin \in startDir
    /\ bin_txt \in startDir

(***************************************************************************)
(* C2: the include_files option handed to setup() holds exactly the        *)
(* matching entries of the working directory, each once.                   *)
(***************************************************************************)
C2_IncludeFilesExact ==
    \A i \in DOMAIN calls :
        /\ Range(calls[i].options.build_exe.include_files) = Payload
        /\ NoDuplicates(calls[i].options.build_exe.include_files)

C2_Witness ==
    /\ calls # <<>>
    /\ Len(calls[1].options.build_exe.include_files) >= 2
    /\ startDir \ Payload # {}

(***************************************************************************)
(* C3: base is 'Win32GUI' exactly when sys.platform is the Windows         *)
(* identifier and None otherwise, and the statement that computes it       *)
(* binds base and changes nothing else.                                    *)
(***************************************************************************)
C3_BaseValue ==
    Bound("base") =>
        /\ platform = "win32" => ns.base = "Win32GUI"
        /\ platform # "win32" => ns.base = "None"

C3_BaseFrame ==
    (pc = "base" /\ pc' # "base") =>
        /\ DOMAIN ns' = DOMAIN ns \cup {"base"}
        /\ \A k \in DOMAIN ns : ns'[k] = ns[k]
        /\ UNCHANGED <<platform, dir, raised, calls>>

C3_BaseIsPure == []C3_BaseValue /\ [][C3_BaseFrame]_vars

C3_Witness ==
    /\ Bound("base")
    /\ ns.base = "Win32GUI"
    /\ pc = "done"

(***************************************************************************)
(* C4 as stated: every dependency declaration handed to setup(), the       *)
(* packages option and the requires keyword alike, names exactly 'serial'  *)
(* and 'tkinter'.                                                          *)
(***************************************************************************)
C4_Original ==
    \A i \in DOMAIN calls :
        /\ Range(calls[i].options.build_exe.packages) = {"serial", "tkinter"}
        /\ Range(calls[i].requires) = {"serial", "tkinter"}

(***************************************************************************)
(* C4 amended: the packages option names exactly 'serial' and 'tkinter'    *)
(* on every platform and for every payload; the requires keyword names     *)
(* 'serial' only.                                                          *)
(***************************************************************************)
C4_Packages ==
    \A i \in DOMAIN calls :
        /\ calls[i].options.build_exe.packages = <<"serial", "tkinter">>
        /\ calls[i].requires = <<"serial">>

C4_Witness ==
    /\ calls # <<>>
    /\ platform = "darwin"
    /\ Cardinality(Payload) = 2

(***************************************************************************)
(* C5: setup() is called at most once in a run, and once the exception is  *)
(* raised no further step is taken.                                        *)
(***************************************************************************)
C5_Terminal == raised = "" /\ (Len(calls') > Len(calls) => calls = <<>>)

C5_OnceAndFatal == [](Len(calls) <= 1) /\ [][C5_Terminal]_vars

C5_Witness ==
    /\ pc = "aborted"
    /\ raised # ""
    /\ calls = <<>>
    /\ startDir = {}

(***************************************************************************)
(* C6: a run with a non-empty payload reaches the call of setup() on every *)
(* platform, a run with an empty payload reaches the abort, and no run     *)
(* does both.                                                              *)
(***************************************************************************)
C6_Terminates ==
    /\ [](Payload # {} => <>(pc = "done" /\ Len(calls) = 1))
    /\ [](Payload = {} => <>(pc = "aborted" /\ raised # ""))
    /\ [](~(calls # <<>> /\ raised # ""))

C6_Witness ==
    /\ pc = "done"
    /\ platform = "cygwin"
    /\ Len(calls) = 1

(***************************************************************************)
(* C7: no statement of the descriptor before the call of setup(), and none *)
(* on the abort path, changes the working directory: the '*.bin' files,    *)
(* the icon and the script stay as they were.                              *)
(***************************************************************************)
C7_WritesNothing ==
    /\ [](pc # "done" => dir = startDir)
    /\ [][pc # "setup" => dir' = dir]_vars

C7_Witness ==
    /\ pc = "setup"
    /\ dir = {fw_bin, icon_ico, script}

(***************************************************************************)
(* C8: both option records are bound only after the guard has passed, are  *)
(* never rebound or changed once bound, and the one call of setup()        *)
(* receives them as they were built.                                       *)
(***************************************************************************)
C8_AfterGuard ==
    (Bound("build_exe_options") \/ Bound("bdist_msi_options")) =>
        /\ pc \notin {"base", "glob", "guard", "aborted"}
        /\ raised = ""
        /\ Len(ns.binaries) > 0

C8_Immutable ==
    \A k \in {"build_exe_options", "bdist_msi_options"} :
        k \in DOMAIN ns => (k \in DOMAIN ns' /\ ns'[k] = ns[k])

C8_Consumed ==
    /\ Len(calls) <= 1
    /\ pc = "done" => Len(calls) = 1
    /\ \A i \in DOMAIN calls :
           /\ calls[i].options.build_exe = ns.build_exe_options
           /\ calls[i].options.bdist_msi = ns.bdist_msi_options
           /\ ns.build_exe_options.include_files = ns.binaries

C8_OptionsLifecycle ==
    [](C8_AfterGuard /\ C8_Consumed) /\ [][C8_Immutable]_vars

C8_Witness ==
    /\ pc = "done"
    /\ Len(calls) = 1
    /\ calls[1].options.build_exe = ns.build_exe_options
    /\ Len(ns.binaries) = 2

(***************************************************************************)
(* Two calls of setup() compared as C9 compares them: the payload as the   *)
(* unordered collection it is, everything else literally, the executable   *)
(* descriptors up to base.                                                 *)
(***************************************************************************)
C9_SamePayload(a, b) ==
    Range(a.options.build_exe.include_files) = Range(b.options.build_exe.include_files)

C9_SameFixedOptions(a, b) ==
    /\ a.options.build_exe.packages = b.options.build_exe.packages
    /\ a.options.build_exe.include_msvcr = b.options.build_exe.include_msvcr
    /\ a.options.bdist_msi = b.options.bdist_msi
    /\ Len(a.executables) = Len(b.executables)
    /\ \A k \in DOMAIN a.executables :
           [a.executables[k] EXCEPT !.base = "None"] =
           [b.executables[k] EXCEPT !.base = "None"]

(***************************************************************************)
(* C9 as stated: two runs over the same working directory under different  *)
(* platform identifiers both abort or both call setup(), and then with     *)
(* the same build and installer options.                                   *)
(***************************************************************************)
C9_Original ==
    \A i \in DOMAIN prev :
        Finished =>
            /\ prev[i].pc = pc
            /\ pc = "done" =>
                   /\ C9_SameFixedOptions(prev[i].calls[1], calls[1])
                   /\ C9_SamePayload(prev[i].calls[1], calls[1])

(***************************************************************************)
(* C9 amended: when two such runs both call setup(), packages,             *)
(* include_msvcr and initial_target_dir are identical and the executable   *)
(* descriptors differ in base at most; when moreover no entry of the       *)
(* directory matches '*.bin' only with case ignored, both runs abort or    *)
(* both call setup(), and include_files holds the same files.              *)
(***************************************************************************)
C9_PlatformIndependent ==
    \A i \in DOMAIN prev :
        Finished =>
            /\ (pc = "done" /\ prev[i].pc = "done") =>
                   C9_SameFixedOptions(prev[i].calls[1], calls[1])
            /\ CaseStable =>
                   /\ prev[i].pc = pc
                   /\ pc = "done" => C9_SamePayload(prev[i].calls[1], calls[1])

C9_Witness ==
    /\ prev # <<>>
    /\ pc = "done"
    /\ prev[1].pc = "done"
    /\ prev[1].calls[1].executables[1].base # calls[1].executables[1].base
    /\ CaseStable

(***************************************************************************)
(* C10: every call of setup() receives exactly one executable descriptor;  *)
(* its base is the tag selected for the platform, and its script, icon,    *)
(* shortcut name and shortcut directory are the same fixed values for      *)
(* every platform and payload.                                             *)
(***************************************************************************)
C10_OneExecutable ==
    \A i \in DOMAIN calls :
        /\ Len(calls[i].executables) = 1
        /\ calls[i].executables[1].base = ns.base
        /\ platform = "win32" <=> calls[i].executables[1].base = "Win32GUI"
        /\ platform # "win32" <=> calls[i].executables[1].base = "None"
        /\ calls[i].executables[1].script = script
        /\ calls[i].executables[1].icon = icon_ico
        /\ calls[i].executables[1].shortcutName = "Zubax Serial Updater"
        /\ calls[i].executables[1].shortcutDir = "ProgramMenuFolder"

C10_Witness ==
    /\ calls # <<>>
    /\ calls[1].executables[1].base = "Win32GUI"
    /\ FW_BIN \in Payload

====
